---- MODULE Spec2Model ----
(***************************************************************************)
(* Model of the in-memory competence mapper of morskamary:                 *)
(*   src/src/core.py               BlueDynamicsAxis, CompetenceLevel,      *)
(*                                 Competence, MicroCredential             *)
(*   src/src/competence_mapper.py  CompetenceMapper                        *)
(*                                                                         *)
(* Representation.                                                         *)
(*  - A Python dict keeps its keys in insertion order and an assignment to *)
(*    an existing key keeps the key's position.  Both mappings of the      *)
(*    mapper are sequences of records with pairwise distinct ids.          *)
(*  - A Competence is [id, axis, level]; name, description and keywords    *)
(*    are read by no method of CompetenceMapper.  A MicroCredential is     *)
(*    [id, competences, sector]; title and description likewise.           *)
(*  - A sector is a str; it is a sequence of one-character strings here so *)
(*    that str.lower() is computed character by character.                 *)
(*  - list(s) of a Python set s is a duplicate-free list in an order the   *)
(*    language leaves open; such a value is represented by the set of its  *)
(*    elements.  set(l) of a list l is the set of the elements of l.       *)
(*  - The sort key of a credential is a float quotient of two small        *)
(*    integers; it is the pair <<dividend, divisor>> here and two keys are *)
(*    compared by cross-multiplication.                                    *)
(***************************************************************************)
EXTENDS Integers, Sequences, FiniteSets, TLC

VARIABLES competences, credentials, added, summary_seen, result

vars == <<competences, credentials, added, summary_seen, result>>

(***************************************************************************)
(* Bounds of the model.                                                    *)
(***************************************************************************)
\* longest list of competence ids a credential is constructed with
MaxRefs == 2
\* longest list of ids passed as `available` to analyze_competence_gaps
MaxAvail == 2

(***************************************************************************)
(* core.py: the two enumerations.                                          *)
(***************************************************************************)
BlueDynamicsAxis == [MARINE |-> "M", MARITIME |-> "T", OCEANIC |-> "O"]

CompetenceLevel ==
    [FOUNDATIONAL |-> 1, INTERMEDIATE |-> 2, ADVANCED |-> 3, EXPERT |-> 4]

\* the members of the enumerations, by name
Axes == DOMAIN BlueDynamicsAxis
Levels == DOMAIN CompetenceLevel

(***************************************************************************)
(* core.py: the two entities.                                              *)
(***************************************************************************)
Competence(id, axis, level) == [id |-> id, axis |-> axis, level |-> level]

MicroCredential(id, comps, sector) ==
    [id |-> id, competences |-> comps, sector |-> sector]

(***************************************************************************)
(* Strings.  str.lower() maps every cased character to its lowercase form  *)
(* and leaves the others alone.                                            *)
(***************************************************************************)
LowerChar(ch) ==
    CASE ch = "P" -> "p"
      [] ch = "O" -> "o"
      [] ch = "R" -> "r"
      [] ch = "T" -> "t"
      [] ch = "S" -> "s"
      [] ch = "E" -> "e"
      [] ch = "N" -> "n"
      [] OTHER    -> ch

lower(s) == [i \in DOMAIN s |-> LowerChar(s[i])]

(***************************************************************************)
(* Python dict and list helpers.                                           *)
(***************************************************************************)
\* the keys of a mapping
Keys(d) == {d[i].id : i \in DOMAIN d}

\* d[k] for a key k of d
Get(d, k) == d[CHOOSE i \in DOMAIN d : d[i].id = k]

\* position of key k in the iteration order of d
IndexOf(d, k) == CHOOSE i \in DOMAIN d : d[i].id = k

\* variant: dict.setdefault, the first value stored under a key stays
SetItemKeepFirst(d, v) ==
    IF v.id \in Keys(d) THEN d ELSE Append(d, v)

\* d[v.id] = v : overwrite in place, or append a new key
SetItem(d, v) ==
    IF v.id \in Keys(d)
    THEN [i \in DOMAIN d |-> IF d[i].id = v.id THEN v ELSE d[i]]
    ELSE Append(d, v)

\* set(l) for a list l
Range(l) == {l[i] : i \in DOMAIN l}

\* all lists over S of length at most n
ListsUpTo(S, n) == UNION {[1..k -> S] : k \in 0..n}

(***************************************************************************)
(* CompetenceMapper: the pure reads.                                       *)
(***************************************************************************)
\* variant: the stored member is compared with the short code of the argument
get_competences_by_axis_by_value(axis) ==
    SelectSeq(competences, LAMBDA c : c.axis = BlueDynamicsAxis[axis])

get_competences_by_axis(axis) ==
    SelectSeq(competences, LAMBDA c : c.axis = axis)

get_competences_by_level(level) ==
    SelectSeq(competences, LAMBDA c : c.level = level)

\* variant: the sectors are compared as they are written
get_sector_competences_exact_case(sector) ==
    LET sector_credentials ==
            SelectSeq(credentials, LAMBDA cred : cred.sector = sector)
    IN UNION {Range(sector_credentials[i].competences) :
                 i \in DOMAIN sector_credentials}

get_sector_competences(sector) ==
    LET sector_credentials ==
            SelectSeq(credentials, LAMBDA cred : lower(cred.sector) = lower(sector))
    IN UNION {Range(sector_credentials[i].competences) :
                 i \in DOMAIN sector_credentials}

\* the comprehension of lines 70-74 for one level
level_missing(missing, level) ==
    {cid \in missing : /\ cid \in Keys(competences)
                       /\ Get(competences, cid).level = level}

\* variant: every level becomes an entry, empty or not
by_level_all_levels(missing) ==
    [level \in Levels |-> level_missing(missing, level)]

\* the loop of lines 69-76: only non-empty lists become entries
by_level(missing) ==
    [level \in {l \in Levels : level_missing(missing, l) # {}}
        |-> level_missing(missing, level)]

\* variant: the facet 'available' is not restricted to what is required
analyze_competence_gaps_unrestricted(available, required_sector) ==
    LET required      == get_sector_competences(required_sector)
        available_set == Range(available)
        missing       == required \ available_set
    IN [available |-> available_set,
        missing   |-> missing,
        by_level  |-> by_level(missing)]

analyze_competence_gaps(available, required_sector) ==
    LET required      == get_sector_competences(required_sector)
        available_set == Range(available)
        missing       == required \ available_set
    IN [available |-> available_set \cap required,
        missing   |-> missing,
        by_level  |-> by_level(missing)]

\* sum(... for cid in cids if cid in self.competences)
RECURSIVE SumLevels(_)
SumLevels(cids) ==
    IF cids = <<>> THEN 0
    ELSE (IF Head(cids) \in Keys(competences)
          THEN CompetenceLevel[Get(competences, Head(cids)).level]
          ELSE 0) + SumLevels(Tail(cids))

Max(a, b) == IF a >= b THEN a ELSE b

\* lines 96-100: the quotient as <<dividend, divisor>>
avg_level(cred) == <<SumLevels(cred.competences), Max(1, Len(cred.competences))>>

\* a < b for two quotients with positive divisors
KeyLess(a, b) == a[1] * b[2] < b[1] * a[2]

\* lines 95-101: one (cred, avg_level) pair per credential, in dict order
credential_levels ==
    [i \in DOMAIN credentials |->
        [cred |-> credentials[i], avg |-> avg_level(credentials[i])]]

\* variant: an unstable insertion, x goes before the first item whose key is
\* greater or equal
RECURSIVE InsertByKeyUnstable(_, _)
InsertByKeyUnstable(sorted, x) ==
    IF sorted = <<>> THEN <<x>>
    ELSE IF ~KeyLess(Head(sorted).avg, x.avg)
         THEN <<x>> \o sorted
         ELSE <<Head(sorted)>> \o InsertByKeyUnstable(Tail(sorted), x)

\* list.sort(key=...) is stable: x goes before the first item whose key is
\* strictly greater
RECURSIVE InsertByKey(_, _)
InsertByKey(sorted, x) ==
    IF sorted = <<>> THEN <<x>>
    ELSE IF KeyLess(x.avg, Head(sorted).avg)
         THEN <<x>> \o sorted
         ELSE <<Head(sorted)>> \o InsertByKey(Tail(sorted), x)

\* the items are inserted one by one, left to right
RECURSIVE SortByKey(_)
SortByKey(items) ==
    IF items = <<>> THEN <<>>
    ELSE InsertByKey(SortByKey(SubSeq(items, 1, Len(items) - 1)),
                     items[Len(items)])

\* variant: credentials whose average is below the starting level are dropped
suggest_credential_pathway_from_level(starting_level) ==
    LET sorted == SortByKey(credential_levels)
        kept   == SelectSeq(sorted, LAMBDA x :
                      ~KeyLess(x.avg, <<CompetenceLevel[starting_level], 1>>))
    IN [i \in DOMAIN kept |-> kept[i].cred]

suggest_credential_pathway(starting_level) ==
    LET sorted == SortByKey(credential_levels)
    IN [i \in DOMAIN sorted |-> sorted[i].cred]

\* variant: the sectors are normalised before they are collected
get_summary_lowered_sectors ==
    LET axis_counts  == [axis \in Axes |-> Len(get_competences_by_axis(axis))]
        level_counts == [level \in Levels |-> Len(get_competences_by_level(level))]
        sectors      == {lower(credentials[i].sector) : i \in DOMAIN credentials}
    IN [total_competences    |-> Len(competences),
        total_credentials    |-> Len(credentials),
        competences_by_axis  |-> axis_counts,
        competences_by_level |-> level_counts,
        sectors              |-> sectors]

get_summary ==
    LET axis_counts  == [axis \in Axes |-> Len(get_competences_by_axis(axis))]
        level_counts == [level \in Levels |-> Len(get_competences_by_level(level))]
        sectors      == {credentials[i].sector : i \in DOMAIN credentials}
    IN [total_competences    |-> Len(competences),
        total_credentials    |-> Len(credentials),
        competences_by_axis  |-> axis_counts,
        competences_by_level |-> level_counts,
        sectors              |-> sectors]

(***************************************************************************)
(* State.  `added` is a history variable: for every id that was ever       *)
(* passed to add_competence, the competence of the latest such call.       *)
(* `summary_seen` is a history variable too: what get_summary returned     *)
(* when it was last called after the latest add, as a list of one element, *)
(* or the empty list.  `result` is the call that ran last, with its        *)
(* arguments and its return value.                                         *)
(***************************************************************************)
Init ==
    /\ competences = <<>>
    /\ credentials = <<>>
    /\ added = [id \in {} |-> id]
    /\ summary_seen = <<>>
    /\ result = [op |-> "init"]

add_competence(competence) ==
    /\ competences' = SetItem(competences, competence)
    /\ added' = [id \in DOMAIN added \cup {competence.id} |->
                    IF id = competence.id THEN competence ELSE added[id]]
    /\ summary_seen' = <<>>
    /\ result' = [op |-> "add_competence", arg |-> competence]
    /\ UNCHANGED credentials

add_credentials(credential) ==
    /\ credentials' = SetItem(credentials, credential)
    /\ summary_seen' = <<>>
    /\ result' = [op |-> "add_credentials", arg |-> credential]
    /\ UNCHANGED <<competences, added>>

call_get_competences_by_axis(axis) ==
    /\ result' = [op |-> "get_competences_by_axis", arg |-> axis,
                  value |-> get_competences_by_axis(axis)]
    /\ UNCHANGED <<competences, credentials, added, summary_seen>>

call_get_competences_by_level(level) ==
    /\ result' = [op |-> "get_competences_by_level", arg |-> level,
                  value |-> get_competences_by_level(level)]
    /\ UNCHANGED <<competences, credentials, added, summary_seen>>

\* variant: the accumulator is the list of the first matching credential
\* itself, so the update writes the next credential's ids into the store
call_get_sector_competences_aliasing(sector) ==
    LET matching == {i \in DOMAIN credentials :
                        lower(credentials[i].sector) = lower(sector)}
        first    == CHOOSE i \in matching : \A j \in matching : i <= j
        second   == CHOOSE j \in matching : j # first
    IN /\ result' = [op |-> "get_sector_competences", arg |-> sector,
                     value |-> get_sector_competences(sector)]
       /\ credentials' =
            IF Cardinality(matching) < 2 THEN credentials
            ELSE [credentials EXCEPT ![first].competences =
                     @ \o credentials[second].competences]
       /\ UNCHANGED <<competences, added, summary_seen>>

call_get_sector_competences(sector) ==
    /\ result' = [op |-> "get_sector_competences", arg |-> sector,
                  value |-> get_sector_competences(sector)]
    /\ UNCHANGED <<competences, credentials, added, summary_seen>>

call_analyze_competence_gaps(available, required_sector) ==
    /\ result' = [op |-> "analyze_competence_gaps",
                  arg |-> [available |-> available,
                           required_sector |-> required_sector],
                  value |-> analyze_competence_gaps(available, required_sector)]
    /\ UNCHANGED <<competences, credentials, added, summary_seen>>

\* arg is a level, or "omitted" when the caller leaves the default in place
call_suggest_credential_pathway(arg) ==
    /\ result' = [op |-> "suggest_credential_pathway", arg |-> arg,
                  credential_levels |-> credential_levels,
                  value |-> suggest_credential_pathway(
                               IF arg = "omitted" THEN "FOUNDATIONAL" ELSE arg)]
    /\ UNCHANGED <<competences, credentials, added, summary_seen>>

call_get_summary ==
    /\ result' = [op |-> "get_summary", value |-> get_summary]
    /\ summary_seen' = <<get_summary>>
    /\ UNCHANGED <<competences, credentials, added>>

(***************************************************************************)
(* Inputs.  The ids and sectors the callers use.                           *)
(***************************************************************************)
CompIds == {"c1", "c2", "c3"}
CredIds == {"k1", "k2", "k3"}

Ports  == <<"P", "o", "r", "t", "s">>
ports  == <<"p", "o", "r", "t", "s">>
PORTS  == <<"P", "O", "R", "T", "S">>
energy == <<"e", "n", "e", "r", "g", "y">>

(***************************************************************************)
(* SpecStore: the competence store under every axis, with the reads that   *)
(* filter and count it.                                                    *)
(***************************************************************************)
StoreCompetences ==
    {Competence(id, axis, level) :
        id \in CompIds, axis \in Axes, level \in {"INTERMEDIATE", "ADVANCED"}}

StoreCredentials ==
    {MicroCredential("k1", comps, ports) : comps \in ListsUpTo({"c1"}, MaxRefs)}

NextStore ==
    \/ \E c \in StoreCompetences : add_competence(c)
    \/ \E k \in StoreCredentials : add_credentials(k)
    \/ \E axis \in Axes : call_get_competences_by_axis(axis)
    \/ \E level \in Levels : call_get_competences_by_level(level)
    \/ call_get_summary

SpecStore == Init /\ [][NextStore]_vars

(***************************************************************************)
(* SpecPathway: credentials over competences of every level, stored or     *)
(* dangling, and the pathway under every starting level.                   *)
(***************************************************************************)
PathwayCompetences ==
    {Competence(id, "MARINE", level) : id \in {"c1", "c2"}, level \in Levels}

PathwayCredentials ==
    {MicroCredential("k1", comps, ports) : comps \in ListsUpTo({"c1", "c2"}, MaxRefs)}
    \cup {MicroCredential("k2", comps, ports) : comps \in ListsUpTo({"c2"}, MaxRefs)}
    \cup {MicroCredential("k3", <<"c1">>, energy)}

StartingLevelArgs == Levels \cup {"omitted"}

NextPathway ==
    \/ \E c \in PathwayCompetences : add_competence(c)
    \/ \E k \in PathwayCredentials : add_credentials(k)
    \/ \E arg \in StartingLevelArgs : call_suggest_credential_pathway(arg)

SpecPathway == Init /\ [][NextPathway]_vars

(***************************************************************************)
(* SpecSector: credentials whose sectors differ in case or in letters,     *)
(* with the two reads that look at sectors.                                *)
(***************************************************************************)
SectorCompetences == {Competence("c1", "MARINE", "INTERMEDIATE")}

SectorCredentials ==
    {MicroCredential(id, comps, sector) :
        id \in {"k1", "k2"},
        comps \in ListsUpTo({"c1", "c2"}, MaxRefs),
        sector \in {Ports, ports, energy}}

SectorArgs == {Ports, ports, PORTS, energy}

NextSector ==
    \/ \E c \in SectorCompetences : add_competence(c)
    \/ \E k \in SectorCredentials : add_credentials(k)
    \/ \E sector \in SectorArgs : call_get_sector_competences(sector)
    \/ call_get_summary

SpecSector == Init /\ [][NextSector]_vars

(***************************************************************************)
(* SpecGaps: gap analysis of a credential against what the caller holds.   *)
(***************************************************************************)
GapsCompetences ==
    {Competence(id, "MARITIME", level) : id \in {"c1", "c2"}, level \in Levels}

GapsCredentials ==
    {MicroCredential("k1", comps, sector) :
        comps \in ListsUpTo(CompIds, MaxRefs), sector \in {Ports, energy}}

GapsAvailable == ListsUpTo({"c1", "c3"}, MaxAvail)

GapsSectors == {ports, energy}

NextGaps ==
    \/ \E c \in GapsCompetences : add_competence(c)
    \/ \E k \in GapsCredentials : add_credentials(k)
    \/ \E available \in GapsAvailable, sector \in GapsSectors :
          call_analyze_competence_gaps(available, sector)

SpecGaps == Init /\ [][NextGaps]_vars

(***************************************************************************)
(* SpecFrame: the two adds interleaved with all six reads.                 *)
(***************************************************************************)
FrameCompetences ==
    {Competence("c1", axis, level) :
        axis \in {"MARINE", "OCEANIC"}, level \in {"FOUNDATIONAL", "EXPERT"}}

FrameCredentials ==
    {MicroCredential(id, comps, sector) :
        id \in {"k1", "k2"},
        comps \in ListsUpTo({"c1", "c2"}, MaxRefs),
        sector \in {Ports, ports}}

NextFrame ==
    \/ \E c \in FrameCompetences : add_competence(c)
    \/ \E k \in FrameCredentials : add_credentials(k)
    \/ \E axis \in {"MARINE", "MARITIME"} : call_get_competences_by_axis(axis)
    \/ \E level \in {"FOUNDATIONAL", "ADVANCED"} : call_get_competences_by_level(level)
    \/ \E sector \in {PORTS, energy} : call_get_sector_competences(sector)
    \/ \E available \in ListsUpTo({"c1"}, 1), sector \in {PORTS} :
          call_analyze_competence_gaps(available, sector)
    \/ \E arg \in {"omitted", "EXPERT"} : call_suggest_credential_pathway(arg)
    \/ call_get_summary

SpecFrame == Init /\ [][NextFrame]_vars

(***************************************************************************)
(* Properties.                                                             *)
(***************************************************************************)
QueryOps ==
    {"get_competences_by_axis", "get_competences_by_level",
     "get_sector_competences", "analyze_competence_gaps",
     "suggest_credential_pathway", "get_summary"}

\* an upper-case letter and its lower-case form
CasePairs ==
    {<<"P", "p">>, <<"O", "o">>, <<"R", "r">>, <<"T", "t">>, <<"S", "s">>,
     <<"E", "e">>, <<"N", "n">>, <<"G", "g">>, <<"Y", "y">>}

\* s and t are the same string up to the case of their letters
SameIgnoringCase(s, t) ==
    /\ Len(s) = Len(t)
    /\ \A i \in DOMAIN s :
          \/ s[i] = t[i]
          \/ <<s[i], t[i]>> \in CasePairs
          \/ <<t[i], s[i]>> \in CasePairs

\* the two quotients are equal
KeyEq(a, b) == a[1] * b[2] = b[1] * a[2]

\* the positions of cids that hold an id of a stored competence
Resolvable(cids) == {i \in DOMAIN cids : cids[i] \in Keys(competences)}

\* C1: the sort key of every credential is the mean of the ranks of its
\* resolvable competence ids: their sum divided by their number, 0 when none
\* resolves; dangling ids count neither in the sum nor in the divisor.
C1_KeyIsMeanOfResolvable ==
    result.op = "suggest_credential_pathway" =>
        \A i \in DOMAIN result.credential_levels :
            LET e == result.credential_levels[i]
                n == Cardinality(Resolvable(e.cred.competences))
            IN e.avg[1] * Max(1, n) = SumLevels(e.cred.competences) * e.avg[2]

\* C2: the pathway holds every stored credential exactly once, in
\* non-decreasing order of the computed average, and credentials with equal
\* averages keep the relative order they have in the credentials mapping.
C2_PathwaySortedStable ==
    result.op = "suggest_credential_pathway" =>
        LET v == result.value
        IN /\ Len(v) = Len(credentials)
           /\ \A k \in DOMAIN credentials :
                 Cardinality({i \in DOMAIN v : v[i] = credentials[k]}) = 1
           /\ \A i, j \in DOMAIN v : i < j =>
                 /\ ~KeyLess(avg_level(v[j]), avg_level(v[i]))
                 /\ KeyEq(avg_level(v[i]), avg_level(v[j])) =>
                       IndexOf(credentials, v[i].id) < IndexOf(credentials, v[j].id)

\* three credentials, two of them with different lists and the same non-zero
\* average, returned in another order than they are stored in
C2_Witness ==
    /\ result.op = "suggest_credential_pathway"
    /\ Len(result.value) = 3
    /\ result.value # credentials
    /\ \E i, j \in DOMAIN result.value :
          /\ i < j
          /\ result.value[i].competences # result.value[j].competences
          /\ avg_level(result.value[i])[1] > 0
          /\ KeyEq(avg_level(result.value[i]), avg_level(result.value[j]))

\* C3: 'available' is set(available) & required and 'missing' is
\* required - set(available), with required the competences of the sector;
\* the facets are disjoint, together they are required, and both are empty
\* when no credential matches the sector.
C3_GapFacets ==
    result.op = "analyze_competence_gaps" =>
        LET required == get_sector_competences(result.arg.required_sector)
            held     == Range(result.arg.available)
            matches  == {i \in DOMAIN credentials :
                            SameIgnoringCase(credentials[i].sector,
                                             result.arg.required_sector)}
        IN /\ result.value.available = {id \in required : id \in held}
           /\ result.value.missing = {id \in required : id \notin held}
           /\ result.value.available \cap result.value.missing = {}
           /\ result.value.available \cup result.value.missing = required
           /\ matches = {} =>
                 /\ result.value.available = {}
                 /\ result.value.missing = {}

\* the caller holds a required id and an id that is not required, and a
\* missing id was never added as a competence
C3_Witness ==
    /\ result.op = "analyze_competence_gaps"
    /\ result.value.available # {}
    /\ \E id \in Range(result.arg.available) : id \notin result.value.available
    /\ \E id \in result.value.missing : id \notin Keys(competences)

\* C4: by_level maps a level name to exactly the missing ids stored with that
\* level: a dangling missing id is under no level, a stored one under exactly
\* its level, and a level without such an id is no key.
C4_ByLevel ==
    result.op = "analyze_competence_gaps" =>
        LET by == result.value.by_level
        IN /\ DOMAIN by \subseteq Levels
           /\ \A l \in Levels :
                 l \in DOMAIN by <=>
                    \E id \in result.value.missing :
                       /\ id \in Keys(competences)
                       /\ Get(competences, id).level = l
           /\ \A l \in DOMAIN by :
                 /\ by[l] # {}
                 /\ by[l] = {id \in result.value.missing :
                                /\ id \in Keys(competences)
                                /\ Get(competences, id).level = l}
           /\ \A id \in result.value.missing :
                 Cardinality({l \in DOMAIN by : id \in by[l]})
                    = IF id \in Keys(competences) THEN 1 ELSE 0

\* one missing id is dangling and another is stored, with the caller holding
\* something
C4_Witness ==
    /\ result.op = "analyze_competence_gaps"
    /\ result.arg.available # <<>>
    /\ \E id \in result.value.missing : id \notin Keys(competences)
    /\ Cardinality(DOMAIN result.value.by_level) = 1
    /\ Cardinality(DOMAIN result.value.by_level) < Cardinality(result.value.missing)

\* C5: get_sector_competences returns the union of the ids of the credentials
\* whose sector is the argument up to case (empty when there is none), and
\* the same set for any argument that differs from it only in case.
C5_SectorIgnoresCase ==
    result.op = "get_sector_competences" =>
        /\ result.value =
              UNION {Range(credentials[i].competences) :
                        i \in {j \in DOMAIN credentials :
                                  SameIgnoringCase(credentials[j].sector, result.arg)}}
        /\ \A s \in SectorArgs :
              SameIgnoringCase(s, result.arg) =>
                 get_sector_competences(s) = result.value

\* two credentials stored under Ports and ports with different lists, asked
\* for under PORTS
C5_Witness ==
    /\ result.op = "get_sector_competences"
    /\ result.arg = PORTS
    /\ Len(credentials) = 2
    /\ credentials[1].sector = Ports
    /\ credentials[2].sector = ports
    /\ Range(credentials[1].competences) # {}
    /\ Range(credentials[2].competences) # {}
    /\ Range(credentials[1].competences) # Range(credentials[2].competences)
    /\ Cardinality(result.value) = 2

\* the store agrees with the history of add_competence
StoreIsLatestAdded ==
    /\ Keys(competences) = DOMAIN added
    /\ Len(competences) = Cardinality(DOMAIN added)
    /\ \A id \in DOMAIN added : Get(competences, id) = added[id]

\* an add under an id that is stored keeps the size, the other entries and
\* the credentials
OverwriteKeepsTheRest ==
    (/\ result'.op = "add_competence"
     /\ result'.arg.id \in Keys(competences))
    => /\ Len(competences') = Len(competences)
       /\ \A id \in Keys(competences) \ {result'.arg.id} :
             /\ id \in Keys(competences')
             /\ Get(competences', id) = Get(competences, id)
       /\ credentials' = credentials

\* C6: competences[id] is the competence added last under id, the store has
\* one entry per distinct id added, and an add under a stored id leaves the
\* size, the other entries and the credentials as they were.
C6_LastWriteWins == []StoreIsLatestAdded /\ [][OverwriteKeepsTheRest]_vars

\* the entry stored first was the one added last, another entry and a
\* credential are stored
C6_Witness ==
    /\ result.op = "add_competence"
    /\ Len(competences) >= 2
    /\ competences[1] = result.arg
    /\ Len(credentials) = 1

\* C7: get_competences_by_axis returns exactly the stored competences of the
\* axis; the three results are pairwise disjoint and cover the store, and
\* the per-axis counts of the summary add up to total_competences.
C7_AxisPartition ==
    /\ \A axis \in Axes :
          Range(get_competences_by_axis(axis)) =
             {c \in Range(competences) : c.axis = axis}
    /\ \A a, b \in Axes : a # b =>
          Range(get_competences_by_axis(a))
             \cap Range(get_competences_by_axis(b)) = {}
    /\ UNION {Range(get_competences_by_axis(axis)) : axis \in Axes}
          = Range(competences)
    /\ result.op = "get_competences_by_axis" =>
          /\ Range(result.value) = {c \in Range(competences) : c.axis = result.arg}
          /\ Len(result.value) = Cardinality(Range(result.value))
    /\ result.op = "get_summary" =>
          /\ result.value.total_competences = Len(competences)
          /\ result.value.competences_by_axis["MARINE"]
               + result.value.competences_by_axis["MARITIME"]
               + result.value.competences_by_axis["OCEANIC"]
             = result.value.total_competences

\* a summary of three competences, one on each axis
C7_Witness ==
    /\ result.op = "get_summary"
    /\ result.value.total_competences = 3
    /\ \A axis \in Axes : result.value.competences_by_axis[axis] = 1

\* a read leaves both mappings alone, and a summary equals the summary taken
\* before it with no add in between
ReadsKeepTheStore ==
    /\ result'.op \in QueryOps =>
          /\ competences' = competences
          /\ credentials' = credentials
    /\ (result'.op = "get_summary" /\ summary_seen # <<>>) =>
          result'.value = summary_seen[1]

\* C8: the six reads leave competences and credentials unchanged, so two
\* summaries with no add in between are identical.
C8_ReadsAreFrameFree == [][ReadsKeepTheStore]_vars

\* a summary, then another read, over two credentials of one sector
C8_Witness ==
    /\ summary_seen # <<>>
    /\ result.op = "get_sector_competences"
    /\ result.value # {}
    /\ Len(credentials) = 2
    /\ Len(competences) = 1

\* C9: the summary lists the sectors as they are written, so two sectors that
\* differ only in case are both listed, while get_sector_competences under
\* either of them returns the ids of both credentials.
C9_SectorsRawInSummary ==
    /\ result.op = "get_summary" =>
          /\ result.value.sectors = {credentials[i].sector : i \in DOMAIN credentials}
          /\ \A i, j \in DOMAIN credentials :
                (/\ credentials[i].sector # credentials[j].sector
                 /\ SameIgnoringCase(credentials[i].sector, credentials[j].sector))
                => /\ credentials[i].sector \in result.value.sectors
                   /\ credentials[j].sector \in result.value.sectors
                   /\ Cardinality(result.value.sectors) >= 2
    /\ result.op = "get_sector_competences" =>
          \A i, j \in DOMAIN credentials :
             (/\ credentials[i].sector # credentials[j].sector
              /\ SameIgnoringCase(credentials[i].sector, credentials[j].sector)
              /\ result.arg \in {credentials[i].sector, credentials[j].sector})
             => result.value = Range(credentials[i].competences)
                                  \cup Range(credentials[j].competences)

\* a summary over one credential under Ports and one under ports
C9_Witness ==
    /\ result.op = "get_summary"
    /\ result.value.total_credentials = 2
    /\ result.value.sectors = {Ports, ports}

\* two pathway calls in a row return the same list
PathwayIgnoresStartingLevel ==
    (/\ result.op = "suggest_credential_pathway"
     /\ result'.op = "suggest_credential_pathway")
    => result'.value = result.value

\* C10: suggest_credential_pathway returns the same ordered list whatever
\* starting_level is, given or omitted.
C10_StartingLevelUnused == [][PathwayIgnoresStartingLevel]_vars

\* a pathway from EXPERT that holds a credential whose average is below 4
C10_Witness ==
    /\ result.op = "suggest_credential_pathway"
    /\ result.arg = "EXPERT"
    /\ Len(result.value) >= 2
    /\ \E i \in DOMAIN result.value :
          KeyLess(avg_level(result.value[i]), <<CompetenceLevel["EXPERT"], 1>>)

====
